---- MODULE Spec2Model ----
(***************************************************************************)
(* Connection Registry of the W3RK API                                     *)
(* (src/services/websocket_manager.py, class WebSocketManager).            *)
(*                                                                         *)
(* The registry is driven by asyncio coroutines.  A coroutine runs without *)
(* interruption between two awaits, so every action below is one such      *)
(* block: it resumes a task at the await it is suspended in, applies the   *)
(* outcome of the awaited transport call and runs the code up to the next  *)
(* await (or to the return of the operation).                              *)
(*                                                                         *)
(* Timestamps (datetime.now()) are modelled by their presence; the         *)
(* "queued_at" stamp, which is renewed every time an envelope is queued,   *)
(* is modelled by the number of times the envelope has been queued.        *)
(* A key missing from message_queues behaves as an empty list everywhere   *)
(* in the code and is modelled as one.  A WebSocket whose peer is gone     *)
(* stays gone: every later write to it fails the same way.                 *)
(*                                                                         *)
(* Spec runs the operations one at a time over two users; SpecBulk serves  *)
(* one user who is handed more than max_queue_size envelopes before the    *)
(* first WebSocket arrives.                                                *)
(***************************************************************************)
EXTENDS Integers, Sequences, FiniteSets, TLC

\* ------------------------------------------------------------------ bounds
MaxHandles == 2      \* WebSocket objects ever handed to connect
MaxMsgs == 2         \* envelopes ever handed to send / broadcast
MaxBulkMsgs == 102   \* envelopes ever handed over in the bulk specification
MaxSessionMsgs == 2  \* messages, and responses, ever appended to the session
MaxDispatch == 2     \* messages ever dispatched to a handler of the uAgents
MaxFrames == 2       \* frames a client ever sends over one WebSocket
MaxClock == 3        \* minutes the clock ever advances
MaxRequests == 3     \* HTTP requests ever answered
MaxFlush == 4        \* entries a flush ever walks while other coroutines run

\* ------------------------------------------------------- program constants
max_queue_size == 100

Users == {"u1", "u2"}
Tasks == {"t1", "t2"}
Handles == 1..MaxHandles
NoWs == 0

VARIABLES
    connections,          \* self.connections: insertion-ordered dict, a sequence of [user, ws]
    connection_metadata,  \* self.connection_metadata: per user
    message_queues,       \* self.message_queues: per user, the list of queued envelopes
    stats,                \* self.stats
    task,                 \* the coroutines: position and locals of each
    ws_state,             \* transport state of every WebSocket object
    wire,                 \* frames the transport of every WebSocket accepted, in order
    attempts,             \* number of send_text calls made on every WebSocket
    next_ws,              \* next WebSocket object the server will be handed
    next_id,              \* next envelope the callers will hand over
    session,              \* a ConversationSession object
    agent,                \* a uAgent: the handler it runs and the messages it sent
    received,             \* frames the endpoint received from every WebSocket, in order
    now,                  \* datetime.now(), in minutes
    http                  \* the HTTP surface: the coordinator global and the answers given

\* The state of the connection registry and of its transport, and the state
\* outside it.
registry_vars == <<connections, connection_metadata, message_queues, stats, task,
                   ws_state, wire, attempts, next_ws, next_id>>

app_vars == <<session, agent, received, now, http>>

vars == <<connections, connection_metadata, message_queues, stats, task,
          ws_state, wire, attempts, next_ws, next_id, app_vars>>

\* --------------------------------------------------------------- envelopes
\* A message dict.  id is 0 for the frames the registry builds itself.
\* obj is the identity of the dict object among the dicts a queue holds (two
\* dicts of equal content are two objects); it is 0 for a dict that is in no
\* queue.
Envelope(type, id, count) ==
    [type |-> type, id |-> id, count |-> count, timestamp |-> FALSE,
     queued_at |-> 0, delivered_from_queue |-> FALSE, broadcast |-> FALSE,
     obj |-> 0]

\* The message send_typing_indicator hands to send_message_to_user: strings
\* and a bool, which json.dumps serializes.
UserMessage(id) == Envelope("typing_indicator", id, 0)

welcome_message == [Envelope("connection_established", 0, 0) EXCEPT !.timestamp = TRUE]

system_notification(count) == Envelope("system_notification", 0, count)

\* ------------------------------------------------- insertion-ordered dict
Has(d, u) == \E i \in 1..Len(d) : d[i].user = u

Get(d, u) == d[CHOOSE i \in 1..Len(d) : d[i].user = u].ws

Put(d, u, w) ==
    IF Has(d, u)
    THEN [i \in 1..Len(d) |-> IF d[i].user = u THEN [user |-> u, ws |-> w] ELSE d[i]]
    ELSE Append(d, [user |-> u, ws |-> w])

Del(d, u) == SelectSeq(d, LAMBDA e : e.user # u)

\* ---------------------------------------------------------- registry state
\* last_activity is the clock reading stored; seq is the position of the
\* user's key in the dict (keys are kept in the order of their first insertion).
NoMetadata == [present |-> FALSE, messages_sent |-> 0, messages_received |-> 0,
               disconnected_at |-> FALSE, last_activity |-> 0, seq |-> 0]

FreshMetadata == [present |-> TRUE, messages_sent |-> 0, messages_received |-> 0,
                  disconnected_at |-> FALSE, last_activity |-> now, seq |-> 0]

\* The position the key of user u has in dict md after md[u] = ... .
KeyOrder(md, u) ==
    IF md[u].present THEN md[u].seq
    ELSE Cardinality({v \in DOMAIN md : md[v].present}) + 1

IdleTask == [pc |-> "idle", op |-> "none", user |-> "none", ws |-> NoWs,
             websocket |-> NoWs,
             message |-> Envelope("none", 0, 0), ctx |-> "none",
             queued_messages |-> <<>>, alias |-> FALSE, pos |-> 0,
             ret |-> "none", snapshot |-> <<>>, exclude |-> {},
             sent_count |-> 0, failed_users |-> <<>>,
             queue_before |-> <<>>,
             current_time |-> 0, max_idle_minutes |-> 0, inactive_users |-> <<>>]

\* The registry together with the coroutines' locals and the transport, as
\* one value the operators below transform.
Self == [connections |-> connections,
         connection_metadata |-> connection_metadata,
         message_queues |-> message_queues,
         stats |-> stats,
         task |-> task,
         wire |-> wire,
         attempts |-> attempts]

Install(s) ==
    /\ connections' = s.connections
    /\ connection_metadata' = s.connection_metadata
    /\ message_queues' = s.message_queues
    /\ stats' = s.stats
    /\ task' = s.task
    /\ wire' = s.wire
    /\ attempts' = s.attempts

\* ------------------------------------------------ messages and responses
\* class AgentType(str, Enum)
AgentType == {"career_advisor", "skills_analyzer", "network_connector",
              "opportunity_matcher", "profile_analyzer"}

\* AgentMessage(id=..., conversation_id=..., agent_type=...): the fields the
\* model follows.
AgentMessage(id, conversation_id, agent_type) ==
    [id |-> id, conversation_id |-> conversation_id, agent_type |-> agent_type]

\* The fields of an AgentResponse.  confidence_score and processing_time are
\* kept in hundredths (85 is 0.85).
AgentResponse(message_id, agent_type, response_content, analysis_results, action_items, confidence_score, processing_time) ==
    [message_id |-> message_id, agent_type |-> agent_type,
     response_content |-> response_content,
     analysis_results |-> analysis_results,
     action_items |-> action_items,
     confidence_score |-> confidence_score,
     processing_time |-> processing_time]

\* Optional[AgentMessage]: the value None.
None == AgentMessage("None", "None", "None")

\* ConversationSession(id=...) as constructed: no messages, no responses.
\* last_activity counts the times it was set after construction.
ConversationSession(id) ==
    [id |-> id, messages |-> <<>>, responses |-> <<>>, last_activity |-> 0]

\* The uAgents before any dispatch: no handler runs, nothing was sent to the
\* requester.  sent is what was handed to ctx.send for the requester so far,
\* sent_before its length when the running handler was entered; step is the
\* await of its analysis the handler is suspended in, updates whether the
\* analysis returned updates for the blockchain.
IdleAgent == [pc |-> "idle", handler |-> "none", msg |-> None, raised |-> FALSE,
              sent |-> <<>>, sent_before |-> 0, dispatched |-> 0,
              step |-> 0, updates |-> FALSE]

\* The module global agent_coordinator: None until the application starts,
\* then AgentCoordinator(), whose agents are None.
NoCoordinator == [started |-> FALSE, career_advisor |-> FALSE, skills_analyzer |-> FALSE]

AgentCoordinator == [started |-> TRUE, career_advisor |-> FALSE, skills_analyzer |-> FALSE]

\* The HTTP surface before the application has started: no coordinator, no
\* request answered.
NoRequests == [agent_coordinator |-> NoCoordinator, answers |-> <<>>]

Init ==
    /\ session = ConversationSession("c1")
    /\ agent = IdleAgent
    /\ received = [h \in Handles |-> <<>>]
    /\ now = 0
    /\ http = NoRequests
    /\ connections = <<>>
    /\ connection_metadata = [u \in Users |-> NoMetadata]
    /\ message_queues = [u \in Users |-> <<>>]
    /\ stats = [total_connections |-> 0, active_connections |-> 0,
                messages_sent |-> 0, messages_received |-> 0]
    /\ task = [t \in Tasks |-> IdleTask]
    /\ ws_state = [h \in Handles |-> "new"]
    /\ wire = [h \in Handles |-> <<>>]
    /\ attempts = [h \in Handles |-> 0]
    /\ next_ws = 1
    /\ next_id = 1


\* ------------------------------------------------------ registry operators
\* Variant of disconnect with a fault: the outbound queue is cleared too.
disconnect_clears_queue(s, u) ==
    IF Has(s.connections, u)
    THEN [s EXCEPT !.connections = Del(@, u),
                   !.stats.active_connections = @ - 1,
                   !.message_queues[u] = <<>>,
                   !.connection_metadata[u] =
                       IF @.present THEN [@ EXCEPT !.disconnected_at = TRUE] ELSE @]
    ELSE s

\* disconnect(user_address)
disconnect(s, u) ==
    IF Has(s.connections, u)
    THEN [s EXCEPT !.connections = Del(@, u),
                   !.stats.active_connections = @ - 1,
                   !.connection_metadata[u] =
                       IF @.present THEN [@ EXCEPT !.disconnected_at = TRUE] ELSE @]
    ELSE s

\* The largest of a set of naturals, 0 for the empty set.
Max(S) == IF S = {} THEN 0 ELSE CHOOSE x \in S : \A y \in S : y <= x

\* The identity of a dict created now for the queue of user u: one that no
\* dict has which the queue, or a list a flush of u still iterates, holds.
NewObj(s, u) ==
    1 + Max({s.message_queues[u][i].obj : i \in 1..Len(s.message_queues[u])}
            \cup UNION {{s.task[t].queued_messages[i].obj :
                             i \in 1..Len(s.task[t].queued_messages)} :
                         t \in {x \in Tasks : s.task[x].user = u}})

\* json.dumps(message): the text carries the content of the dict, not its
\* identity.
json_dumps(m) == [m EXCEPT !.obj = 0]

\* json.dumps(message) raises TypeError: the message holds a value that is
\* not JSON serializable, the datetime of an AgentResponse.dict().
json_dumps_raises(m) ==
    "response" \in DOMAIN m /\ m.response.timestamp = "datetime"

\* Variants of _queue_message_for_user with a fault in the size limit: the
\* limit is not applied at all, or it keeps the oldest entries.
_queue_message_for_user_unbounded(s, u, m) ==
    LET queued_message == [m EXCEPT !.queued_at = @ + 1, !.obj = NewObj(s, u)]
        Aliased(t) == s.task[t].alias /\ s.task[t].user = u
    IN  [s EXCEPT
            !.message_queues[u] = Append(@, queued_message),
            !.task = [t \in Tasks |->
                        IF Aliased(t)
                        THEN [s.task[t] EXCEPT !.queued_messages = Append(@, queued_message)]
                        ELSE s.task[t]]]

_queue_message_for_user_keep_oldest(s, u, m) ==
    LET queued_message == [m EXCEPT !.queued_at = @ + 1, !.obj = NewObj(s, u)]
        grown == Append(s.message_queues[u], queued_message)
        over == Len(grown) > max_queue_size
        Aliased(t) == s.task[t].alias /\ s.task[t].user = u
    IN  [s EXCEPT
            !.message_queues[u] =
                IF over THEN SubSeq(grown, 1, max_queue_size) ELSE grown,
            !.task = [t \in Tasks |->
                        IF Aliased(t)
                        THEN [s.task[t] EXCEPT !.queued_messages = Append(@, queued_message),
                                               !.alias = ~over]
                        ELSE s.task[t]]]

\* _queue_message_for_user(user_address, message).  The append is made on the
\* list object itself, so a flush that iterates that same object sees it; the
\* truncation binds a new list and leaves the iterated one behind.
_queue_message_for_user(s, u, m) ==
    LET queued_message == [m EXCEPT !.queued_at = @ + 1, !.obj = NewObj(s, u)]
        grown == Append(s.message_queues[u], queued_message)
        over == Len(grown) > max_queue_size
        Aliased(t) == s.task[t].alias /\ s.task[t].user = u
    IN  [s EXCEPT
            !.message_queues[u] =
                IF over
                THEN SubSeq(grown, Len(grown) - max_queue_size + 1, Len(grown))
                ELSE grown,
            !.task = [t \in Tasks |->
                        IF Aliased(t)
                        THEN [s.task[t] EXCEPT !.queued_messages = Append(@, queued_message),
                                               !.alias = ~over]
                        ELSE s.task[t]]]

\* An in-place update of a queued dict (message["..."] = ...): every list that
\* holds the dict object shows the update; a dict of equal content that is
\* another object does not.
SetItem(s, u, old, new) ==
    LET Repl(q) == [i \in 1..Len(q) |-> IF q[i].obj = old.obj THEN new ELSE q[i]]
    IN  [s EXCEPT
            !.message_queues[u] = Repl(@),
            !.task = [t \in Tasks |->
                        IF s.task[t].user = u /\ s.task[t].queued_messages # <<>>
                        THEN [s.task[t] EXCEPT !.queued_messages = Repl(@)]
                        ELSE s.task[t]]]

\* Variant of send_begin with a fault: the envelope for an offline user is
\* dropped instead of queued.
send_begin_drop_offline(s, t, u, m, queued) ==
    IF Has(s.connections, u)
    THEN LET stamped == [m EXCEPT !.timestamp = TRUE]
             s1 == IF queued THEN SetItem(s, u, m, stamped) ELSE s
         IN  IF json_dumps_raises(stamped)
             THEN [s1 EXCEPT !.task[t].message = stamped,
                             !.task[t].pc = "send_return",
                             !.task[t].ret = "false"]
             ELSE [s1 EXCEPT !.task[t].websocket = Get(s.connections, u),
                             !.task[t].message = stamped,
                             !.task[t].pc = "send_write"]
    ELSE [s EXCEPT !.task[t].message = m,
                   !.task[t].pc = "send_return",
                   !.task[t].ret = "false"]

\* send_message_to_user up to its await: either suspended in send_text
\* (pc "send_write") or returned (pc "send_return"), after queuing or because
\* json.dumps raised, which the except Exception clause answers with False.
send_begin(s, t, u, m, queued) ==
    IF Has(s.connections, u)
    THEN LET stamped == [m EXCEPT !.timestamp = TRUE]
             s1 == IF queued THEN SetItem(s, u, m, stamped) ELSE s
         IN  IF json_dumps_raises(stamped)
             THEN [s1 EXCEPT !.task[t].message = stamped,
                             !.task[t].pc = "send_return",
                             !.task[t].ret = "false"]
             ELSE [s1 EXCEPT !.task[t].websocket = Get(s.connections, u),
                             !.task[t].message = stamped,
                             !.task[t].pc = "send_write"]
    ELSE LET s1 == _queue_message_for_user(s, u, m)
         IN  [s1 EXCEPT !.task[t].message = m,
                        !.task[t].pc = "send_return",
                        !.task[t].ret = "false"]

\* send_message_to_user from the return of send_text on: st is the state of
\* the transport written to.
send_resume(s, t, st) ==
    LET w == s.task[t].websocket
        u == s.task[t].user
        m == s.task[t].message
        s0 == [s EXCEPT !.attempts[w] = @ + 1]
    IN  CASE st = "open" ->
                [s0 EXCEPT !.wire[w] = Append(@, json_dumps(m)),
                           !.stats.messages_sent = @ + 1,
                           !.connection_metadata[u] =
                               IF @.present
                               THEN [@ EXCEPT !.messages_sent = @ + 1,
                                              !.last_activity = now]
                               ELSE @,
                           !.task[t].pc = "send_return",
                           !.task[t].ret = "true"]
          [] st = "disconnected" ->
                LET s1 == _queue_message_for_user(disconnect(s0, u), u, m)
                IN  [s1 EXCEPT !.task[t].pc = "send_return", !.task[t].ret = "false"]
          [] OTHER ->
                [s0 EXCEPT !.task[t].pc = "send_return", !.task[t].ret = "false"]

\* The coroutine returns: its locals are gone, its result stays.
Return(s, t, r) ==
    [s EXCEPT !.task[t] = [IdleTask EXCEPT !.pc = "done",
                                           !.op = s.task[t].op,
                                           !.user = s.task[t].user,
                                           !.ws = s.task[t].ws,
                                           !.websocket = s.task[t].websocket,
                                           !.message = s.task[t].message,
                                           !.exclude = s.task[t].exclude,
                                           !.snapshot = s.task[t].snapshot,
                                           !.sent_count = s.task[t].sent_count,
                                           !.queue_before = s.task[t].queue_before,
                                           !.ret = r]]

\* _deliver_queued_messages, head of the loop at element i of queued_messages.
flush_loop(s, t, i) ==
    LET u == s.task[t].user
        ql == s.task[t].queued_messages
    IN  IF i > Len(ql)
        THEN LET s1 == [s EXCEPT
                          !.message_queues[u] = <<>>,
                          !.task = [x \in Tasks |->
                                      IF s.task[x].user = u
                                      THEN [s.task[x] EXCEPT !.alias = FALSE]
                                      ELSE s.task[x]]]
             IN  Return(s1, t, "ok")
        ELSE LET m == ql[i]
                 m2 == [m EXCEPT !.delivered_from_queue = TRUE]
                 s1 == SetItem(s, u, m, m2)
                 s2 == [s1 EXCEPT !.task[t].pos = i, !.task[t].ctx = "item"]
                 s3 == send_begin(s2, t, u, m2, TRUE)
             IN  IF s3.task[t].pc = "send_return"
                 THEN [s3 EXCEPT !.task[t].pc = "flush_sleep"]
                 ELSE s3

\* _deliver_queued_messages up to its first await.  queue_before keeps what
\* the queue held when the flush read it.
_deliver_queued_messages(s, t) ==
    LET u == s.task[t].user
        queued_messages == s.message_queues[u]
    IN  IF queued_messages = <<>>
        THEN Return([s EXCEPT !.task[t].queue_before = queued_messages], t, "ok")
        ELSE LET s1 == [s EXCEPT !.task[t].queued_messages = queued_messages,
                                 !.task[t].queue_before = queued_messages,
                                 !.task[t].alias = TRUE,
                                 !.task[t].ctx = "notify"]
                 s2 == send_begin(s1, t, u, system_notification(Len(queued_messages)), FALSE)
             IN  IF s2.task[t].pc = "send_return"
                 THEN flush_loop(s2, t, 1)
                 ELSE s2

\* ------------------------------------------------------------------ actions
Free(t) == task[t].pc \in {"idle", "done"}

\* connect(websocket, user_address) is called and suspends in accept().
StartConnect(t, u) ==
    /\ Free(t)
    /\ task' = [task EXCEPT ![t] = [IdleTask EXCEPT !.pc = "connect_accept",
                                                    !.op = "connect",
                                                    !.user = u,
                                                    !.ws = next_ws,
                                                    !.queue_before = message_queues[u]]]
    /\ next_ws' = next_ws + 1
    /\ UNCHANGED <<connections, connection_metadata, message_queues, stats,
                   ws_state, wire, attempts, next_id, app_vars>>

\* Variant of ConnectAccept with a fault: a handle already registered for the
\* user is kept (setdefault instead of assignment).
ConnectAccept_keep_prior(t, accepted) ==
    /\ task[t].pc = "connect_accept"
    /\ LET u == task[t].user
           w == task[t].ws
       IN  IF accepted
           THEN /\ ws_state' = [ws_state EXCEPT ![w] = "open"]
                /\ connections' = IF Has(connections, u) THEN connections
                                  ELSE Put(connections, u, w)
                /\ connection_metadata' =
                      [connection_metadata EXCEPT
                          ![u] = [FreshMetadata EXCEPT !.seq = KeyOrder(connection_metadata, u)]]
                /\ stats' = [stats EXCEPT !.total_connections = @ + 1,
                                          !.active_connections = @ + 1]
                /\ task' = [task EXCEPT ![t].pc = "connect_welcome"]
           ELSE /\ ws_state' = [ws_state EXCEPT ![w] = "rejected"]
                /\ task' = Return(Self, t, "raised").task
                /\ UNCHANGED <<connections, connection_metadata, stats>>
    /\ UNCHANGED <<message_queues, wire, attempts, next_ws, next_id, app_vars>>

\* accept() returns or raises; on success the connection is registered and
\* the coroutine suspends in the write of the welcome message.
ConnectAccept(t, accepted) ==
    /\ task[t].pc = "connect_accept"
    /\ LET u == task[t].user
           w == task[t].ws
       IN  IF accepted
           THEN /\ ws_state' = [ws_state EXCEPT ![w] = "open"]
                /\ connections' = Put(connections, u, w)
                /\ connection_metadata' =
                      [connection_metadata EXCEPT
                          ![u] = [FreshMetadata EXCEPT !.seq = KeyOrder(connection_metadata, u)]]
                /\ stats' = [stats EXCEPT !.total_connections = @ + 1,
                                          !.active_connections = @ + 1]
                /\ task' = [task EXCEPT ![t].pc = "connect_welcome"]
           ELSE /\ ws_state' = [ws_state EXCEPT ![w] = "rejected"]
                /\ task' = Return(Self, t, "raised").task
                /\ UNCHANGED <<connections, connection_metadata, stats>>
    /\ UNCHANGED <<message_queues, wire, attempts, next_ws, next_id, app_vars>>

\* Variant of ConnectWelcome with a fault: the flush starts without the
\* welcome message having been written.
ConnectWelcome_flush_first(t) ==
    /\ task[t].pc = "connect_welcome"
    /\ Install(_deliver_queued_messages(Self, t))
    /\ UNCHANGED <<ws_state, next_ws, next_id, app_vars>>

\* The write of the welcome message returns or raises; on success the flush
\* of the queue starts.
ConnectWelcome(t) ==
    /\ task[t].pc = "connect_welcome"
    /\ LET w == task[t].ws
           s0 == [Self EXCEPT !.attempts[w] = @ + 1]
       IN  IF ws_state[w] = "open"
           THEN Install(_deliver_queued_messages(
                            [s0 EXCEPT !.wire[w] = Append(@, welcome_message)], t))
           ELSE Install(Return(s0, t, "raised"))
    /\ UNCHANGED <<ws_state, next_ws, next_id, app_vars>>

\* send_text called by send_message_to_user returns or raises.
SendWrite(t) ==
    /\ task[t].pc = "send_write"
    /\ LET s1 == send_resume(Self, t, ws_state[task[t].websocket])
       IN  CASE task[t].ctx = "send" -> Install(Return(s1, t, s1.task[t].ret))
             [] task[t].ctx = "notify" -> Install(flush_loop(s1, t, 1))
             [] OTHER -> Install([s1 EXCEPT !.task[t].pc = "flush_sleep"])
    /\ UNCHANGED <<ws_state, next_ws, next_id, app_vars>>

\* asyncio.sleep(0.1) after one queued message returns.
FlushSleep(t) ==
    /\ task[t].pc = "flush_sleep"
    /\ Install(flush_loop(Self, t, task[t].pos + 1))
    /\ UNCHANGED <<ws_state, next_ws, next_id, app_vars>>

\* send_message_to_user(user_address, message) is called with a new message.
StartSend(t, u) ==
    /\ Free(t)
    /\ LET s0 == [Self EXCEPT !.task[t] = [IdleTask EXCEPT !.op = "send",
                                                           !.user = u,
                                                           !.ctx = "send",
                                                           !.queue_before = message_queues[u]]]
           s1 == send_begin(s0, t, u, UserMessage(next_id), FALSE)
       IN  IF s1.task[t].pc = "send_return"
           THEN Install(Return(s1, t, s1.task[t].ret))
           ELSE Install(s1)
    /\ next_id' = next_id + 1
    /\ UNCHANGED <<ws_state, next_ws, app_vars>>

\* disconnect(user_address) is called.
Disconnect(t, u) ==
    /\ Free(t)
    /\ LET s0 == [Self EXCEPT !.task[t] = [IdleTask EXCEPT !.op = "disconnect",
                                                           !.user = u,
                                                           !.queue_before = message_queues[u]]]
       IN  Install(Return(disconnect(s0, u), t, "none"))
    /\ UNCHANGED <<ws_state, next_ws, next_id, app_vars>>

\* The WebSocket a suspended coroutine is writing to or closing (NoWs when
\* it is not suspended in a call of the transport).
PendingWrite(t) ==
    CASE task[t].pc = "connect_welcome" -> task[t].ws
      [] task[t].pc \in {"send_write", "broadcast_write", "reply_write",
                          "cleanup_close"} ->
             task[t].websocket
      [] OTHER -> NoWs

\* The peer of an open WebSocket goes away: from now on send_text raises,
\* WebSocketDisconnect ("disconnected") or another exception ("broken").
\* The registry learns of it only from a write, so the step is taken while a
\* write to that WebSocket is pending.
Drop(h, kind) ==
    /\ ws_state[h] = "open"
    /\ \E t \in Tasks : PendingWrite(t) = h
    /\ ws_state' = [ws_state EXCEPT ![h] = kind]
    /\ UNCHANGED <<connections, connection_metadata, message_queues, stats, task,
                   wire, attempts, next_ws, next_id, app_vars>>

\* broadcast_to_all: the next entry of the snapshot at or after index i that
\* is not excluded (Len + 1 when there is none).
NextTarget(snapshot, exclude, i) ==
    LET rest == {j \in i..Len(snapshot) : snapshot[j].user \notin exclude}
    IN  IF rest = {} THEN Len(snapshot) + 1
        ELSE CHOOSE j \in rest : \A k \in rest : j <= k

RECURSIVE disconnect_all(_, _)
disconnect_all(s, failed_users) ==
    IF failed_users = <<>> THEN s
    ELSE disconnect_all(disconnect(s, Head(failed_users)), Tail(failed_users))

\* Variant of broadcast_loop with a fault: the users whose write failed are
\* not disconnected.
broadcast_loop_no_cleanup(s, t, i) ==
    IF i > Len(s.task[t].snapshot)
    THEN Return(s, t, "count")
    ELSE [s EXCEPT !.task[t].pos = i,
                   !.task[t].websocket = s.task[t].snapshot[i].ws,
                   !.task[t].pc = "broadcast_write"]

\* broadcast_to_all at the head of its loop, about to handle entry i.
broadcast_loop(s, t, i) ==
    IF i > Len(s.task[t].snapshot)
    THEN Return(disconnect_all(s, s.task[t].failed_users), t, "count")
    ELSE [s EXCEPT !.task[t].pos = i,
                   !.task[t].websocket = s.task[t].snapshot[i].ws,
                   !.task[t].pc = "broadcast_write"]

\* broadcast_to_all(message, exclude_users) is called with a new message.
StartBroadcast(t, exclude_users) ==
    /\ Free(t)
    /\ LET message == [UserMessage(next_id) EXCEPT !.timestamp = TRUE, !.broadcast = TRUE]
           s0 == [Self EXCEPT !.task[t] = [IdleTask EXCEPT !.op = "broadcast",
                                                           !.message = message,
                                                           !.exclude = exclude_users,
                                                           !.snapshot = connections]]
       IN  Install(broadcast_loop(s0, t, NextTarget(connections, exclude_users, 1)))
    /\ next_id' = next_id + 1
    /\ UNCHANGED <<ws_state, next_ws, app_vars>>

\* send_text called by broadcast_to_all returns or raises.
BroadcastWrite(t) ==
    /\ task[t].pc = "broadcast_write"
    /\ LET w == task[t].websocket
           u == task[t].snapshot[task[t].pos].user
           s0 == [Self EXCEPT !.attempts[w] = @ + 1]
           s1 == IF ws_state[w] = "open"
                 THEN [s0 EXCEPT !.wire[w] = Append(@, task[t].message),
                                 !.task[t].sent_count = @ + 1]
                 ELSE [s0 EXCEPT !.task[t].failed_users = Append(@, u)]
       IN  Install(broadcast_loop(s1, t,
                       NextTarget(task[t].snapshot, task[t].exclude, task[t].pos + 1)))
    /\ UNCHANGED <<ws_state, next_ws, next_id, app_vars>>

\* ----------------------------------------------------------- specification
\* One operation at a time: the next is called when the previous returned.
Step(t, users, maxMsgs) ==
    \/ \E u \in users : next_ws <= MaxHandles /\ StartConnect(t, u)
    \/ \E accepted \in BOOLEAN : ConnectAccept(t, accepted)
    \/ ConnectWelcome(t)
    \/ SendWrite(t)
    \/ FlushSleep(t)
    \/ \E u \in users : next_id <= maxMsgs /\ StartSend(t, u)
    \/ \E u \in users : Disconnect(t, u)
    \/ \E ex \in SUBSET users : next_id <= maxMsgs /\ StartBroadcast(t, ex)
    \/ BroadcastWrite(t)

Environment ==
    \E h \in Handles, kind \in {"disconnected", "broken"} : Drop(h, kind)

Next ==
    \/ Step("t1", Users, MaxMsgs)
    \/ Environment

Spec == Init /\ [][Next]_vars

\* The same registry serving one user whose peers stay reachable and who is
\* handed up to MaxBulkMsgs envelopes before the first WebSocket arrives:
\* enough to fill the queue beyond max_queue_size.
NextBulk ==
    \/ next_ws <= MaxHandles /\ StartConnect("t1", "u1")
    \/ \E accepted \in BOOLEAN : ConnectAccept("t1", accepted)
    \/ ConnectWelcome("t1")
    \/ SendWrite("t1")
    \/ FlushSleep("t1")
    \/ next_ws = 1 /\ next_id <= MaxBulkMsgs /\ StartSend("t1", "u1")
    \/ Disconnect("t1", "u1")

SpecBulk == Init /\ [][NextBulk]_vars

\* The queue lengths at which the user of the flush specification connects.
FlushLengths == {1, 2, 3, 10, 50, 99, 100}

\* The event loop resumes a coroutine whose awaited call has completed:
\* accept() and send_text() return or raise, asyncio.sleep(0.1) returns.
Resume(t) ==
    \/ \E accepted \in BOOLEAN : ConnectAccept(t, accepted)
    \/ ConnectWelcome(t)
    \/ SendWrite(t)
    \/ FlushSleep(t)

\* One user who is handed up to max_queue_size envelopes and then connects
\* once, through a WebSocket whose peer may go away at any write of the
\* connect.
NextFlush ==
    \/ next_ws = 1 /\ next_id <= max_queue_size /\ StartSend("t1", "u1")
    \/ /\ next_ws = 1
       /\ Len(message_queues["u1"]) \in FlushLengths
       /\ StartConnect("t1", "u1")
    \/ Resume("t1")
    \/ Environment

SpecFlush == Init /\ [][NextFlush]_vars

\* A broadcaster (task t1, which also makes the connects) running while
\* another task (t2) disconnects users: disconnect is called between two
\* awaits of the broadcast.
NextBroadcast ==
    \/ \E u \in Users : next_ws <= MaxHandles /\ StartConnect("t1", u)
    \/ \E accepted \in BOOLEAN : ConnectAccept("t1", accepted)
    \/ ConnectWelcome("t1")
    \/ \E ex \in SUBSET Users : next_id <= MaxMsgs /\ StartBroadcast("t1", ex)
    \/ BroadcastWrite("t1")
    \/ \E u \in Users : Disconnect("t2", u)
    \/ Environment

SpecBroadcast == Init /\ [][NextBroadcast]_vars

\* -------------------------------------------------- idle-connection cleanup
\* (cleanup_inactive_connections)

\* The keys of dict md in iteration order.
Keys(md) ==
    [i \in 1..Cardinality({u \in DOMAIN md : md[u].present}) |->
        CHOOSE u \in DOMAIN md : md[u].present /\ md[u].seq = i]

\* Variant of cleanup_close with a fault: the user is disconnected only when
\* close() returned.
cleanup_close_no_finally(s, u, closed) ==
    IF closed THEN disconnect(s, u) ELSE s

\* try: await websocket.close() / except: pass / finally: disconnect(user):
\* whatever close() did, the user is disconnected.
cleanup_close(s, u, closed) ==
    disconnect(s, u)

\* cleanup_inactive_connections has returned; the arguments it ran with stay
\* for inspection.
cleanup_return(s, t) ==
    [Return(s, t, "none") EXCEPT
        !.task[t].current_time = s.task[t].current_time,
        !.task[t].max_idle_minutes = s.task[t].max_idle_minutes,
        !.task[t].inactive_users = s.task[t].inactive_users]

\* The second loop of cleanup_inactive_connections at entry i of
\* inactive_users: entries without a live handle are passed over, for the
\* first one with a live handle the coroutine suspends in close().
cleanup_loop(s, t, i) ==
    LET inactive_users == s.task[t].inactive_users
        live == {j \in i..Len(inactive_users) : Has(s.connections, inactive_users[j])}
    IN  IF live = {}
        THEN cleanup_return(s, t)
        ELSE LET j == CHOOSE k \in live : \A l \in live : k <= l
             IN  [s EXCEPT !.task[t].pos = j,
                           !.task[t].websocket = Get(s.connections, inactive_users[j]),
                           !.task[t].pc = "cleanup_close"]

\* The idle thresholds the callers pass.
IdleThresholds == {0, 1}

\* cleanup_inactive_connections(max_idle_minutes) is called: the users whose
\* metadata shows more than max_idle_minutes since the last activity are
\* collected, then the second loop starts.
StartCleanup(t, max_idle_minutes) ==
    /\ Free(t)
    /\ LET current_time == now
           inactive_users ==
               SelectSeq(Keys(connection_metadata),
                         LAMBDA u : current_time - connection_metadata[u].last_activity
                                        > max_idle_minutes)
           s0 == [Self EXCEPT !.task[t] = [IdleTask EXCEPT
                                              !.op = "cleanup",
                                              !.current_time = current_time,
                                              !.max_idle_minutes = max_idle_minutes,
                                              !.inactive_users = inactive_users]]
       IN  Install(cleanup_loop(s0, t, 1))
    /\ UNCHANGED <<ws_state, next_ws, next_id, app_vars>>

\* close() returns (the WebSocket was open) or raises; the user is
\* disconnected and the loop goes on.
CleanupClose(t) ==
    /\ task[t].pc = "cleanup_close"
    /\ LET w == task[t].websocket
           u == task[t].inactive_users[task[t].pos]
       IN  /\ ws_state' = [ws_state EXCEPT ![w] = IF @ = "open" THEN "closed" ELSE @]
           /\ Install(cleanup_loop(cleanup_close(Self, u, ws_state[w] = "open"),
                                    t, task[t].pos + 1))
    /\ UNCHANGED <<next_ws, next_id, app_vars>>

\* A minute passes.
Tick ==
    /\ now < MaxClock
    /\ now' = now + 1
    /\ UNCHANGED <<registry_vars, session, agent, received, http>>

\* Connects and cleanups called one after the other while time passes.
NextCleanup ==
    \/ \E u \in Users : next_ws <= MaxHandles /\ StartConnect("t1", u)
    \/ \E accepted \in BOOLEAN : ConnectAccept("t1", accepted)
    \/ ConnectWelcome("t1")
    \/ \E m \in IdleThresholds : StartCleanup("t1", m)
    \/ CleanupClose("t1")
    \/ Tick
    \/ Environment

SpecCleanup == Init /\ [][NextCleanup]_vars

\* ------------------------------------------------------ conversation store
\* (src/models/agent_models.py, class ConversationSession)

\* ConversationSession.add_message(message)
add_message(s, message) ==
    [s EXCEPT !.messages = Append(@, message), !.last_activity = @ + 1]

\* ConversationSession.add_response(response)
add_response(s, response) ==
    [s EXCEPT !.responses = Append(@, response), !.last_activity = @ + 1]

\* Variant of get_messages_by_agent with a fault: the newest match comes first.
get_messages_by_agent_newest_first(s, agent_type) ==
    LET matches == SelectSeq(s.messages, LAMBDA msg : msg.agent_type = agent_type)
    IN  [i \in 1..Len(matches) |-> matches[Len(matches) + 1 - i]]

\* ConversationSession.get_messages_by_agent(agent_type)
get_messages_by_agent(s, agent_type) ==
    SelectSeq(s.messages, LAMBDA msg : msg.agent_type = agent_type)

\* ConversationSession.get_latest_message()
get_latest_message(s) ==
    IF s.messages # <<>> THEN s.messages[Len(s.messages)] ELSE None

\* What the callers hand to the session: message ids, conversation ids (the
\* session's own and another one) and agent types.
MessageIds == {"m1", "m2"}
ConversationIds == {"c1", "c2"}
SessionAgents == {"career_advisor", "skills_analyzer"}

\* session.add_message(AgentMessage(...)) is called.
AddMessage(id, conversation_id, agent_type) ==
    /\ Len(session.messages) < MaxSessionMsgs
    /\ session' = add_message(session, AgentMessage(id, conversation_id, agent_type))
    /\ UNCHANGED <<registry_vars, agent, received, now, http>>

\* session.add_response(AgentResponse(...)) is called.
AddResponse(message_id, agent_type) ==
    /\ Len(session.responses) < MaxSessionMsgs
    /\ session' = add_response(session,
                      AgentResponse(message_id, agent_type, "content", "analysis",
                                    "actions", 85, 50))
    /\ UNCHANGED <<registry_vars, agent, received, now, http>>

NextSession ==
    \/ \E id \in MessageIds, c \in ConversationIds, a \in SessionAgents :
           AddMessage(id, c, a)
    \/ \E id \in MessageIds, a \in SessionAgents : AddResponse(id, a)

SpecSession == Init /\ [][NextSession]_vars

\* ------------------------------------------- coordinator and API surface
\* (src/main.py: AgentCoordinator, chat_with_w3rk_agents, websocket_endpoint)

\* pydantic's ValidationError, raised by a model constructor.
ValidationError == [exception |-> "ValidationError"]

\* The AttributeError of a call to a method that no class defines.
AttributeError == [exception |-> "AttributeError"]

IsException(r) == "exception" \in DOMAIN r

\* AgentResponse(...) as pydantic constructs it: agent_type must be a member
\* of the AgentType enum and confidence_score must satisfy ge=0, le=1;
\* processing_time is a float without a constraint.
AgentResponseInit(r) ==
    IF r.agent_type \in AgentType /\ r.confidence_score >= 0 /\ r.confidence_score <= 100
    THEN r
    ELSE ValidationError

\* The agents AgentCoordinator knows (get_all_agent_status).
RegisteredAgents == {"career_advisor", "skills_analyzer"}

\* AgentCoordinator.route_message_to_agent(agent_type, message): the mock
\* response, whatever the agent type; AgentResponse rejects an agent_type
\* that is no member of the AgentType enum.
route_message_to_agent(agent_type, message) ==
    AgentResponseInit(
        AgentResponse(message.id, agent_type, <<"Mock response from", agent_type>>,
                      "mock", "Mock action item", 85, 50))

\* The text frames a client sends: JSON objects with or without an
\* "agent_type" key, and text that is no JSON.
Frame(agent_type) == [json |-> TRUE, agent_type |-> agent_type]

FrameNoTag == [json |-> TRUE]

NotJson == [json |-> FALSE]

\* JSON objects whose "message" or "conversation_id" is null, and JSON that
\* is no object.
FrameNullMessage(agent_type) ==
    [json |-> TRUE, agent_type |-> agent_type, message |-> "null"]

FrameNullConversation == [json |-> TRUE, conversation_id |-> "null"]

NotObject == [json |-> TRUE, array |-> TRUE]

Frames ==
    {Frame("network_connector"), Frame("astrologer"), FrameNoTag, NotJson,
     FrameNullMessage("network_connector"), FrameNullConversation, NotObject}

\* What ends websocket_endpoint before a frame is routed: json.loads raises
\* on text that is no JSON, message_data.get raises AttributeError on JSON
\* that is no object, and the AgentMessage constructor rejects an agent_type
\* outside the enum, a content and a conversation_id that are no strings.
frame_raises(data) ==
    \/ ~data.json
    \/ "array" \in DOMAIN data
    \/ (IF "agent_type" \in DOMAIN data THEN data.agent_type ELSE "career_advisor")
           \notin AgentType
    \/ "message" \in DOMAIN data /\ data.message = "null"
    \/ "conversation_id" \in DOMAIN data /\ data.conversation_id = "null"

\* message_data.get("agent_type", "career_advisor")
FrameAgent(data) ==
    IF "agent_type" \in DOMAIN data THEN data.agent_type ELSE "career_advisor"

\* The frame websocket_endpoint writes for a response.
ReplyFrame(agent_type, r) ==
    [type |-> "agent_response", id |-> 0, count |-> 0, timestamp |-> TRUE,
     queued_at |-> 0, delivered_from_queue |-> FALSE, broadcast |-> FALSE,
     obj |-> 0,
     agent |-> agent_type, response |-> r.response_content,
     analysis |-> r.analysis_results, actions |-> r.action_items]

\* response.dict(): the fields of the response, among them the datetime
\* that AgentResponse.timestamp defaults to.
dict(r) == r @@ [timestamp |-> "datetime"]

\* The message chat_with_w3rk_agents hands to send_message_to_user; id is the
\* message id the response carries.
ChatPush(agent_type, r) ==
    [type |-> "agent_response", id |-> r.message_id, count |-> 0,
     timestamp |-> FALSE, queued_at |-> 0, delivered_from_queue |-> FALSE,
     broadcast |-> FALSE, obj |-> 0, agent |-> agent_type, response |-> dict(r)]

\* lifespan: the application starts.
Startup ==
    /\ ~http.agent_coordinator.started
    /\ http' = [http EXCEPT !.agent_coordinator = AgentCoordinator]
    /\ UNCHANGED <<registry_vars, session, agent, received, now>>

\* websocket_endpoint is suspended in receive_text: connect has returned, or
\* the reply to the previous frame was written.
AwaitingFrame(t) ==
    \/ task[t].pc = "done" /\ task[t].op = "connect" /\ task[t].ret = "ok"
    \/ task[t].pc = "receive"

\* websocket_endpoint ends while parsing a frame ("parse"), writing a reply
\* ("reply") or waiting for a frame ("receive"): by an exception that leaves
\* it ("raised") or after the WebSocketDisconnect it handles.
EndpointEnds(s, t, where, r) ==
    [Return(s, t, r) EXCEPT !.task[t].ctx = where]

\* receive_text returns the frame data: it is parsed, the AgentMessage is
\* built and, when the application has started (if agent_coordinator:), the
\* coordinator answers (it never suspends) and the endpoint suspends in the
\* write of the reply; without a coordinator it waits for the next frame.
\* json.loads, message_data.get and the AgentMessage constructor raise out
\* of the endpoint, whose except clause takes WebSocketDisconnect only.
EndpointReceive(t, data) ==
    /\ AwaitingFrame(t)
    /\ ws_state[task[t].ws] = "open"
    /\ Len(received[task[t].ws]) < MaxFrames
    /\ received' = [received EXCEPT ![task[t].ws] = Append(@, data)]
    /\ LET agent_type == FrameAgent(data)
           agent_message == AgentMessage(next_id, "c1", agent_type)
           r == route_message_to_agent(agent_type, agent_message)
           s0 == [Self EXCEPT !.task[t].op = "endpoint"]
       IN  IF frame_raises(data)
           THEN Install(EndpointEnds(s0, t, "parse", "raised"))
           ELSE IF ~http.agent_coordinator.started
           THEN Install([s0 EXCEPT !.task[t].pc = "receive"])
           ELSE Install([s0 EXCEPT !.task[t].pc = "reply_write",
                                   !.task[t].ctx = "reply",
                                   !.task[t].websocket = task[t].ws,
                                   !.task[t].message = ReplyFrame(agent_type, r)])
    /\ UNCHANGED <<ws_state, next_ws, next_id, session, agent, now, http>>

\* receive_text raises WebSocketDisconnect: the peer has closed.  The
\* endpoint calls disconnect(user_address) and returns.
EndpointDisconnect(t) ==
    /\ AwaitingFrame(t)
    /\ ws_state' = [ws_state EXCEPT ![task[t].ws] =
                       IF @ = "open" THEN "disconnected" ELSE @]
    /\ LET s0 == [Self EXCEPT !.task[t].op = "endpoint"]
       IN  Install(EndpointEnds(disconnect(s0, task[t].user), t, "receive", "disconnected"))
    /\ UNCHANGED <<next_ws, next_id, app_vars>>

\* The write of the reply returns or raises: WebSocketDisconnect ends the
\* endpoint through disconnect, any other exception leaves it raw.
ReplyWrite(t) ==
    /\ task[t].pc = "reply_write"
    /\ LET w == task[t].websocket
           s0 == [Self EXCEPT !.attempts[w] = @ + 1]
       IN  CASE ws_state[w] = "open" ->
                   Install([s0 EXCEPT !.wire[w] = Append(@, task[t].message),
                                      !.task[t].pc = "receive"])
             [] ws_state[w] = "disconnected" ->
                   Install(EndpointEnds(disconnect(s0, task[t].user), t,
                                        "reply", "disconnected"))
             [] OTHER ->
                   Install(EndpointEnds(s0, t, "reply", "raised"))
    /\ UNCHANGED <<ws_state, next_ws, next_id, app_vars>>

\* POST /chat/w3rk with a user_address: without a coordinator the request
\* raises HTTPException(503); otherwise the message is built, the coordinator
\* answers, the conversation is stored (a no-op) and the response is handed
\* to send_message_to_user.  Every exception, the HTTPException(503)
\* included, becomes HTTPException(500).
StartChat(t, u, agent_type) ==
    /\ Free(t)
    /\ LET s0 == [Self EXCEPT !.task[t] = [IdleTask EXCEPT !.op = "chat",
                                                           !.user = u,
                                                           !.ctx = "send",
                                                           !.queue_before = message_queues[u]]]
           agent_message == AgentMessage(next_id, "c1", agent_type)
           r == route_message_to_agent(agent_type, agent_message)
       IN  IF ~http.agent_coordinator.started \/ agent_type \notin AgentType
           THEN Install(Return(s0, t, "http_500"))
           ELSE LET s1 == send_begin(s0, t, u, ChatPush(agent_type, r), FALSE)
                IN  IF s1.task[t].pc = "send_return"
                    THEN Install(Return(s1, t, s1.task[t].ret))
                    ELSE Install(s1)
    /\ next_id' = next_id + 1
    /\ UNCHANGED <<ws_state, next_ws, app_vars>>

\* The peer of the user goes away while a write to it is pending: the
\* welcome, the queued-count notification, a queued envelope or a reply.
EnvironmentDuplex ==
    \E h \in Handles, kind \in {"disconnected", "broken"} : Drop(h, kind)

\* One user served over the duplex endpoint (task t1, one WebSocket after the
\* other) and over HTTP (task t2) at the same time: a POST /chat/w3rk is
\* answered at any point of the endpoint, inside connect too.  A flush is
\* followed through its first MaxFlush entries.
NextDuplex ==
    \/ Startup
    \/ /\ ~AwaitingFrame("t1")
       /\ next_ws <= MaxHandles
       /\ StartConnect("t1", "u1")
    \/ \E accepted \in BOOLEAN : ConnectAccept("t1", accepted)
    \/ ConnectWelcome("t1")
    \/ task["t1"].pos < MaxFlush /\ FlushSleep("t1")
    \/ \E data \in Frames : EndpointReceive("t1", data)
    \/ EndpointDisconnect("t1")
    \/ ReplyWrite("t1")
    \/ \E a \in {"career_advisor", "astrologer"} :
          /\ next_id <= MaxMsgs
          /\ StartChat("t2", "u1", a)
    \/ \E t \in Tasks : SendWrite(t)
    \/ EnvironmentDuplex

SpecDuplex == Init /\ [][NextDuplex]_vars

\* A peer goes away while a write to it is pending.
EnvironmentReconnect ==
    \E h \in Handles, kind \in {"disconnected", "broken"} : Drop(h, kind)

\* One user served by two endpoint coroutines at once (a client that
\* reconnects before its earlier connection is known to be gone): task t1
\* serves the first WebSocket, task t2 the second, which arrives at any point
\* of the first; each connects and later sees its peer close; a task that
\* serves no connection sends to the user.  A flush is followed through its
\* first MaxFlush entries.
NextReconnect ==
    \/ next_ws = 1 /\ StartConnect("t1", "u1")
    \/ /\ next_ws = 2
       /\ next_ws <= MaxHandles
       /\ StartConnect("t2", "u1")
    \/ \E t \in Tasks, accepted \in BOOLEAN : ConnectAccept(t, accepted)
    \/ \E t \in Tasks : ConnectWelcome(t)
    \/ \E t \in Tasks : SendWrite(t)
    \/ \E t \in Tasks : task[t].pos < MaxFlush /\ FlushSleep(t)
    \/ \E t \in Tasks : ~AwaitingFrame(t) /\ next_id <= MaxMsgs /\ StartSend(t, "u1")
    \/ \E t \in Tasks : EndpointDisconnect(t)
    \/ EnvironmentReconnect

SpecReconnect == Init /\ [][NextReconnect]_vars

\* ------------------------------------------------------------ HTTP surface
\* (src/main.py: the profile and chat endpoints).  The helpers the endpoints
\* await are coroutines without an await of their own, so an endpoint runs
\* from the request to the answer in one step.

\* A wallet address string: its first two characters, the number of
\* characters after them, what tells it from other addresses, and whether it
\* is all lower case.
Address(prefix, digits, id, lower) ==
    [prefix |-> prefix, digits |-> digits, id |-> id, lower |-> lower]

WalletAddresses ==
    {Address(<<"0", "x">>, 40, "a", TRUE), Address(<<"0", "x">>, 40, "B", FALSE),
     Address(<<"0", "x">>, 2, "c", TRUE), Address(<<"e", "t">>, 40, "d", TRUE)}

\* v.startswith('0x'), len(v) and v.lower()
startswith_0x(v) == v.prefix = <<"0", "x">>

len(v) == Len(v.prefix) + v.digits

lower(v) == [v EXCEPT !.lower = TRUE]

\* ProfessionalProfile(wallet_address=...): validate_wallet_address rejects
\* the address or stores it in lower case.
ProfessionalProfile(wallet_address) ==
    IF ~startswith_0x(wallet_address) \/ len(wallet_address) # 42
    THEN ValidationError
    ELSE [wallet_address |-> lower(wallet_address)]

\* Optional[ProfessionalProfile]: the value None.
NoProfile == [wallet_address |-> Address(<<>>, 0, "None", TRUE)]

\* fetch_profile_from_storage(wallet_address): the storage is a mock that
\* holds nothing.
fetch_profile_from_storage(wallet_address) == NoProfile

\* What the client of an endpoint gets: the status of the answer, the status
\* of the HTTPException the endpoint's own code raised (0 when it raised
\* none) and the profile the answer carries.
Answer(raised, status_code, profile) ==
    [raised |-> raised, status_code |-> status_code, profile |-> profile]

\* raise HTTPException(status_code=...), as long as nothing catches it.
HTTPException(status_code) == Answer(status_code, status_code, NoProfile)

\* except Exception as e: raise HTTPException(status_code=500, ...).
\* HTTPException is an Exception.
except_Exception(a) ==
    IF a.raised # 0 \/ a.status_code >= 500 THEN [a EXCEPT !.status_code = 500] ELSE a

\* create_profile(profile_data)
create_profile(profile_data) ==
    except_Exception(
        IF ~startswith_0x(profile_data.wallet_address)
        THEN HTTPException(400)
        ELSE Answer(0, 200, profile_data))

\* get_profile(wallet_address): "except HTTPException: raise" stands before
\* "except Exception", so the 404 passes.
get_profile(wallet_address) ==
    LET profile == fetch_profile_from_storage(wallet_address)
    IN  IF profile = NoProfile
        THEN HTTPException(404)
        ELSE Answer(0, 200, profile)

\* update_profile(wallet_address, update_request)
update_profile(wallet_address) ==
    LET profile == fetch_profile_from_storage(wallet_address)
    IN  except_Exception(
            IF profile = NoProfile
            THEN HTTPException(404)
            ELSE Answer(0, 200, profile))

\* chat_with_w3rk_agents(message, agent_type) without a user_address: nothing
\* is pushed over a WebSocket.
chat_with_w3rk_agents(agent_coordinator, agent_type) ==
    except_Exception(
        IF ~agent_coordinator.started
        THEN HTTPException(503)
        ELSE IF IsException(route_message_to_agent(agent_type,
                                AgentMessage("uuid", "c1", agent_type)))
             THEN Answer(0, 500, NoProfile)
             ELSE Answer(0, 200, NoProfile))

\* get_career_guidance(career_goals, user_address)
get_career_guidance(agent_coordinator, user_address) ==
    LET profile == fetch_profile_from_storage(user_address)
    IN  except_Exception(
            IF ~agent_coordinator.started \/ ~agent_coordinator.career_advisor
            THEN HTTPException(503)
            ELSE IF profile = NoProfile
                 THEN HTTPException(404)
                 ELSE Answer(0, 200, NoProfile))

\* The endpoints, by method and path.
POST_profiles == "POST /profiles/"
GET_profiles == "GET /profiles/{wallet_address}"
PUT_profiles == "PUT /profiles/{wallet_address}"
POST_chat_w3rk == "POST /chat/w3rk"
POST_chat_career_guidance == "POST /chat/career-guidance"

\* The answers given so far, with answer a of endpoint to a request for
\* wallet_address added.
answered(h, endpoint, wallet_address, a) ==
    [h EXCEPT !.answers =
        Append(@, [endpoint |-> endpoint, wallet_address |-> wallet_address,
                   raised |-> a.raised, status_code |-> a.status_code,
                   profile |-> a.profile])]

\* POST /profiles/ with a body whose wallet_address is given: a body the
\* model rejects is answered 422 before create_profile is entered.
PostProfiles(wallet_address) ==
    /\ Len(http.answers) < MaxRequests
    /\ LET profile_data == ProfessionalProfile(wallet_address)
       IN  http' = answered(http, POST_profiles, wallet_address,
                            IF IsException(profile_data)
                            THEN Answer(0, 422, NoProfile)
                            ELSE create_profile(profile_data))
    /\ UNCHANGED <<registry_vars, session, agent, received, now>>

\* GET /profiles/{wallet_address}
GetProfiles(wallet_address) ==
    /\ Len(http.answers) < MaxRequests
    /\ http' = answered(http, GET_profiles, wallet_address, get_profile(wallet_address))
    /\ UNCHANGED <<registry_vars, session, agent, received, now>>

\* PUT /profiles/{wallet_address}
PutProfiles(wallet_address) ==
    /\ Len(http.answers) < MaxRequests
    /\ http' = answered(http, PUT_profiles, wallet_address, update_profile(wallet_address))
    /\ UNCHANGED <<registry_vars, session, agent, received, now>>

\* POST /chat/w3rk without a user_address
PostChatW3rk(agent_type) ==
    /\ Len(http.answers) < MaxRequests
    /\ http' = answered(http, POST_chat_w3rk, Address(<<>>, 0, "None", TRUE),
                        chat_with_w3rk_agents(http.agent_coordinator, agent_type))
    /\ UNCHANGED <<registry_vars, session, agent, received, now>>

\* POST /chat/career-guidance
PostChatCareerGuidance(user_address) ==
    /\ Len(http.answers) < MaxRequests
    /\ http' = answered(http, POST_chat_career_guidance, user_address,
                        get_career_guidance(http.agent_coordinator, user_address))
    /\ UNCHANGED <<registry_vars, session, agent, received, now>>

NextHttp ==
    \/ Startup
    \/ \E w \in WalletAddresses : PostProfiles(w)
    \/ \E w \in WalletAddresses : GetProfiles(w)
    \/ \E w \in WalletAddresses : PutProfiles(w)
    \/ \E a \in {"career_advisor", "astrologer"} : PostChatW3rk(a)
    \/ \E w \in WalletAddresses : PostChatCareerGuidance(w)

SpecHttp == Init /\ [][NextHttp]_vars

\* ------------------------------------------------------- uAgent handlers
\* (src/agents/career_advisor.py and src/agents/skills_analyzer.py,
\* _setup_protocols).  A handler suspends in the awaits of its analysis and
\* in ctx.send, which it calls with the response it built; each of them
\* returns or raises (the helpers awaited reach methods that no class of the
\* repository defines, e.g. _generate_career_timeline, so the raising
\* outcome is the one a deployment without replaced helpers takes).

\* The on_message handlers of the protocols, and the agent each belongs to.
AnalysisHandlers == {"handle_career_analysis", "handle_skill_extraction"}
ChatHandlers == {"handle_conversational_input", "handle_conversational_skill_input"}
ValidationHandlers == {"handle_skill_validation_request"}
Handlers == AnalysisHandlers \cup ChatHandlers \cup ValidationHandlers

HandlerAgent(h) ==
    IF h \in {"handle_career_analysis", "handle_conversational_input"}
    THEN "career_advisor" ELSE "skills_analyzer"

\* The calls a handler awaits, one after the other, before it builds its
\* response (_generate_career_recommendations holds no await and runs with
\* the return of _analyze_career_path).
AnalysisAwaits(h) ==
    CASE h = "handle_career_analysis" -> <<"_analyze_career_path">>
      [] h = "handle_skill_extraction" ->
            <<"_extract_skills_comprehensive", "_analyze_skill_proficiency",
              "_generate_skill_recommendations">>
      [] h = "handle_conversational_input" ->
            <<"_extract_career_info", "_provide_conversational_guidance">>
      [] h = "handle_conversational_skill_input" ->
            <<"_analyze_conversational_skills", "_provide_skill_guidance">>
      [] OTHER -> <<"_validate_skill_evidence">>

\* The dicts dispatched to handle_skill_validation_request: with and without
\* the "skill_name" and "evidence_data" keys the handler subscripts.
ValidationRequests ==
    {[validation_id |-> "v1", skill_name |-> "python", evidence_data |-> "evidence"],
     [validation_id |-> "v1", skill_name |-> "python"],
     [validation_id |-> "v1"]}

\* CareerAnalysisRequest(user_profile=...): user_profile is the set of keys
\* the profile dict holds.  The model has no id, no conversation_id and no
\* agent_type field.
CareerAnalysisRequest(user_profile) == [user_profile |-> user_profile]

\* SkillExtractionRequest(text_content=...), document_type at its default;
\* it has no id either.
SkillExtractionRequest(text_content) ==
    [text_content |-> text_content, document_type |-> "general"]

\* The messages that can be dispatched to handler h: objects of the model the
\* handler is registered for (on_message(model=...)).
Dispatched(h) ==
    CASE h \in ValidationHandlers -> ValidationRequests
      [] h = "handle_career_analysis" ->
            {CareerAnalysisRequest(p) : p \in {{}, {"wallet_address"}}}
      [] h = "handle_skill_extraction" -> {SkillExtractionRequest("text")}
      [] OTHER -> {AgentMessage(id, "c1", HandlerAgent(h)) : id \in MessageIds}

\* CareerAdvisorAgent._calculate_confidence_score, from the number of skills
\* and experiences of the profile and the number of career paths found.
_calculate_confidence_score(skills, experiences, career_paths) ==
    LET score == 50 + (IF skills >= 3 THEN 20 ELSE 0)
                    + (IF experiences >= 1 THEN 20 ELSE 0)
                    + (IF career_paths >= 2 THEN 10 ELSE 0)
    IN  IF score < 100 THEN score ELSE 100

\* What an analysis returns to its handler: the confidence and the
\* processing time it states.  The career analysis computes its confidence
\* with _calculate_confidence_score; the other analyses take it from what
\* their helpers return (a mean of per-skill scores, an entry of a dict).
\* processing_time is the difference of two readings of datetime.now(), the
\* wall clock, which can be set back between them.  The validation handler
\* reads neither.
Elapsed == {-100, 0, 50}
HelperConfidences == {-10, 0, 80, 120}
CareerConfidences ==
    {_calculate_confidence_score(s, e, c) : s \in {0, 3}, e \in {0, 1}, c \in {0, 2}}

AnalysisResults(h) ==
    [confidence : CASE h = "handle_career_analysis" -> CareerConfidences
                    [] h \in ValidationHandlers -> {0}
                    [] OTHER -> HelperConfidences,
     processing_time : IF h \in ValidationHandlers THEN {0} ELSE Elapsed]

\* The response a handler builds when its analysis returned result.  The
\* career analysis stamps it with a message id made of a prefix and the
\* clock.  The constructor raises when it rejects a field.  The skill
\* extraction calls self._prepare_skill_contract_updates, which no class
\* defines, for an argument of the constructor: it raises AttributeError
\* whatever the result.  The validation handler builds a dict, no
\* AgentResponse.
response(h, msg, result) ==
    CASE h = "handle_career_analysis" ->
            AgentResponseInit(
                AgentResponse("career_analysis_<timestamp>", "career_advisor",
                              "summary", "analysis_result", "recommendations",
                              result.confidence, result.processing_time))
      [] h = "handle_skill_extraction" -> AttributeError
      [] h \in ValidationHandlers ->
            [validation_id |-> msg.validation_id, skill_name |-> msg.skill_name,
             validation_result |-> "validation_result",
             validator_agent |-> "skills_analyzer", timestamp |-> TRUE]
      [] OTHER ->
            AgentResponseInit(
                AgentResponse(msg.id, HandlerAgent(h), "response", "insights", "actions",
                              result.confidence, result.processing_time))

\* The response the except branch of an analysis handler builds.
error_response(h) ==
    AgentResponse("error_<timestamp>", HandlerAgent(h),
                  "I encountered an error", "error", "Please try again", 0, 0)

\* except Exception as e: the analysis handlers hand error_response to
\* ctx.send and suspend in it, the other handlers log the exception and
\* return.
handler_except(a) ==
    IF a.handler \in AnalysisHandlers
    THEN [a EXCEPT !.pc = "error_send", !.raised = TRUE,
                   !.sent = Append(@, error_response(a.handler))]
    ELSE [a EXCEPT !.pc = "done", !.raised = TRUE]

\* Message msg is dispatched to handler h, which suspends in the first await
\* of its analysis, or takes its except branch at once: when the awaited call
\* raises before it suspends (a call that reaches a method no class defines),
\* and, in the validation handler, when the dict lacks a key the arguments
\* of the call subscript.
StartHandler(h, msg, suspends) ==
    /\ agent.pc \in {"idle", "done"}
    /\ agent.dispatched < MaxDispatch
    /\ msg \in Dispatched(h)
    /\ LET a == [agent EXCEPT !.pc = "work", !.handler = h,
                              !.msg = msg,
                              !.raised = FALSE,
                              !.sent_before = Len(agent.sent),
                              !.dispatched = @ + 1,
                              !.step = 1,
                              !.updates = FALSE]
           KeyError == h \in ValidationHandlers
                           /\ {"skill_name", "evidence_data"} \ DOMAIN msg # {}
       IN  agent' = IF ~suspends \/ KeyError THEN handler_except(a) ELSE a
    /\ UNCHANGED <<registry_vars, session, received, now, http>>

\* An await of the analysis that is not the last one returns or raises.
HandlerAwait(ok) ==
    /\ agent.pc = "work"
    /\ agent.step < Len(AnalysisAwaits(agent.handler))
    /\ agent' = IF ok THEN [agent EXCEPT !.step = @ + 1] ELSE handler_except(agent)
    /\ UNCHANGED <<registry_vars, session, received, now, http>>

\* The last await of the analysis raises, or it returns result and the
\* response is built and handed to ctx.send, in which the handler suspends
\* (an exception raised while the response is built is an exception of the
\* handler like any other); in the career analysis the result may call for
\* a blockchain update ("updates").
HandlerWork(outcome, result) ==
    /\ agent.pc = "work"
    /\ agent.step = Len(AnalysisAwaits(agent.handler))
    /\ outcome = "updates" => agent.handler = "handle_career_analysis"
    /\ result \in AnalysisResults(agent.handler)
    /\ LET r == response(agent.handler, agent.msg, result)
       IN  agent' =
              IF outcome = "raise" \/ IsException(r)
              THEN handler_except(agent)
              ELSE [agent EXCEPT !.sent = Append(@, r),
                                 !.pc = "send",
                                 !.updates = (outcome = "updates")]
    /\ UNCHANGED <<registry_vars, session, received, now, http>>

\* ctx.send(sender, response) returns or raises: the handler returns or
\* takes its except branch.  When the result of the career analysis calls
\* for a blockchain update, _update_blockchain_profile runs before the
\* handler returns: its call subscripts msg.user_profile with
\* "wallet_address" (KeyError, taken by the except branch of the handler);
\* the coroutines of contract_manager it awaits hold no await and it catches
\* every Exception itself, so it returns in the same step.
HandlerSend(ok) ==
    /\ agent.pc = "send"
    /\ agent' =
          CASE ~ok -> handler_except(agent)
            [] agent.updates /\ "wallet_address" \notin agent.msg.user_profile ->
                 handler_except(agent)
            [] OTHER -> [agent EXCEPT !.pc = "done"]
    /\ UNCHANGED <<registry_vars, session, received, now, http>>

\* ctx.send(sender, error_response) in the except branch of an analysis
\* handler returns, or raises out of the handler: the handler has ended.
HandlerErrorSend ==
    /\ agent.pc = "error_send"
    /\ agent' = [agent EXCEPT !.pc = "done"]
    /\ UNCHANGED <<registry_vars, session, received, now, http>>

NextAgents ==
    \/ \E h \in Handlers, suspends \in BOOLEAN :
          \E msg \in Dispatched(h) : StartHandler(h, msg, suspends)
    \/ \E ok \in BOOLEAN : HandlerAwait(ok)
    \/ \E outcome \in {"ok", "updates", "raise"} :
          \E c \in CareerConfidences \cup HelperConfidences, p \in Elapsed :
              HandlerWork(outcome, [confidence |-> c, processing_time |-> p])
    \/ \E ok \in BOOLEAN : HandlerSend(ok)
    \/ HandlerErrorSend

SpecAgents == Init /\ [][NextAgents]_vars

\* The queue the bounded append of _queue_message_for_user leaves.
Tagged(m) == [m EXCEPT !.queued_at = @ + 1]

BoundedAppend(q, m) ==
    IF Len(q) < max_queue_size THEN Append(q, m) ELSE Append(Tail(q), m)

\* The content of the dicts of a list, whichever objects they are.
Contents(q) == [i \in 1..Len(q) |-> json_dumps(q[i])]

\* ------------------------------------------------------------------ claims

\* C1: in every reachable state, whatever connects, disconnects, sends,
\* broadcasts and flushes happened, no user's outbound queue holds more than
\* 100 entries.
C1_QueueBounded ==
    \A u \in Users : Len(message_queues[u]) <= 100

\* A queue that is full after an entry was evicted: the flush that requeues
\* into its own list has left a 101-entry list behind.
C1_Witness ==
    \E t \in Tasks :
        /\ task[t].pc = "flush_sleep"
        /\ Len(task[t].queued_messages) = 101
        /\ Len(message_queues[task[t].user]) = 100

\* C2: eviction is first-in first-out: after n sends to a user that has not
\* connected, the queue is the last min(n, 100) envelopes in send order.
C2_FifoEviction ==
    next_ws = 1 =>
        LET n == next_id - 1
            k == IF n < 100 THEN n ELSE 100
        IN  Contents(message_queues["u1"]) = [i \in 1..k |-> Tagged(UserMessage(n - k + i))]

\* 102 envelopes were sent to the offline user: two were evicted.
C2_Witness ==
    /\ next_ws = 1
    /\ next_id = 103
    /\ Len(message_queues["u1"]) = 100
    /\ message_queues["u1"][1].id = 3

\* C3: a send to a user with no live handle returns delivered=false without
\* raising, puts the envelope, stamped queued_at, at the end of that user's
\* queue and makes no write on any WebSocket.
C3_SendOffline ==
    [][\A u \in Users :
          (StartSend("t1", u) /\ ~Has(connections, u)) =>
              /\ task'["t1"].pc = "done"
              /\ task'["t1"].ret = "false"
              /\ Contents(message_queues'[u]) =
                    Contents(BoundedAppend(message_queues[u], Tagged(UserMessage(next_id))))
              /\ \A v \in Users \ {u} : message_queues'[v] = message_queues[v]
              /\ attempts' = attempts
              /\ wire' = wire
              /\ connections' = connections]_vars

\* An offline send has returned while the other user holds a live handle.
C3_Witness ==
    /\ task["t1"].pc = "done"
    /\ task["t1"].op = "send"
    /\ task["t1"].websocket = NoWs
    /\ task["t1"].ret = "false"
    /\ connections # <<>>
    /\ Len(message_queues[task["t1"].user]) = 2

\* What a queued envelope looks like on the wire, and the frames a connect
\* writes for a queue q when every write succeeds.
Delivered(e) == [json_dumps(e) EXCEPT !.delivered_from_queue = TRUE, !.timestamp = TRUE]

Notice(n) == [system_notification(n) EXCEPT !.timestamp = TRUE]

ConnectDone(t) ==
    /\ task[t].pc = "done"
    /\ task[t].op = "connect"
    /\ task[t].ret = "ok"

\* C4: for every queue length from 0 to 100, a connect made after envelopes
\* were queued for the user writes exactly one queued-count notification
\* carrying the length, then every queued envelope in queue order, and
\* leaves the user's queue empty.
C4_FlushDeliversQueue ==
    \A t \in Tasks :
        (ConnectDone(t) /\ Len(task[t].queue_before) \in 0..100) =>
            LET q == task[t].queue_before
            IN  /\ SelectSeq(wire[task[t].ws], LAMBDA f : f # welcome_message) =
                      <<Notice(Len(q))>> \o [i \in 1..Len(q) |-> Delivered(q[i])]
                /\ message_queues[task[t].user] = <<>>

\* C5: when the flush has finished, every envelope that was queued at the
\* connect has either been written to the handle or is in the queue again.
C5_FailedEnvelopeKept ==
    \A t \in Tasks :
        ConnectDone(t) =>
            \A i \in 1..Len(task[t].queue_before) :
                \/ \E j \in 1..Len(wire[task[t].ws]) :
                       wire[task[t].ws][j].id = task[t].queue_before[i].id
                \/ \E j \in 1..Len(message_queues[task[t].user]) :
                       message_queues[task[t].user][j].id = task[t].queue_before[i].id

\* C6: when send finds a live handle and the write fails, whatever the
\* failure, the handle is no longer registered and the envelope is at the end
\* of the user's queue, delivered=false being returned.
C6_WriteFailureRequeues ==
    \A t \in Tasks :
        (task[t].pc = "done" /\ task[t].op = "send" /\ task[t].websocket # NoWs
            /\ task[t].ret # "true") =>
            /\ task[t].ret = "false"
            /\ ~Has(connections, task[t].user)
            /\ Contents(message_queues[task[t].user]) =
                   Contents(BoundedAppend(task[t].queue_before, Tagged(task[t].message)))

\* C7: on every handle the first frame is the welcome, the queued-count
\* notice comes after it, and every envelope delivered from the queue comes
\* after the welcome and after the notice.
C7_WelcomeFirst ==
    \A h \in Handles :
        /\ wire[h] # <<>> => wire[h][1] = welcome_message
        /\ \A i, j \in 1..Len(wire[h]) :
              /\ wire[h][j].delivered_from_queue => j > 1
              /\ (wire[h][i].type = "system_notification"
                    /\ wire[h][j].delivered_from_queue) => (1 < i /\ i < j)

\* A handle received the welcome, the notice and a queued envelope.
C7_Witness ==
    \E h \in Handles :
        /\ Len(wire[h]) >= 3
        /\ wire[h][2].type = "system_notification"
        /\ wire[h][3].delivered_from_queue

\* The entries of a finished broadcast's snapshot that were written to, and
\* those among them whose WebSocket fails every write.
BroadcastTargets(t) ==
    {i \in 1..Len(task[t].snapshot) : task[t].snapshot[i].user \notin task[t].exclude}

BroadcastFailing(t) ==
    {i \in BroadcastTargets(t) : ws_state[task[t].snapshot[i].ws] # "open"}

\* C8: a broadcast to N live connections of which exactly one fails returns
\* N-1; afterwards the failing user has no live handle and keeps its
\* metadata, and the others keep their handles.
C8_BroadcastOneFailure ==
    \A t \in Tasks :
        (task[t].pc = "done" /\ task[t].op = "broadcast"
            /\ Cardinality(BroadcastFailing(t)) = 1) =>
            /\ task[t].sent_count = Cardinality(BroadcastTargets(t)) - 1
            /\ \A i \in BroadcastFailing(t) :
                  /\ ~Has(connections, task[t].snapshot[i].user)
                  /\ connection_metadata[task[t].snapshot[i].user].present
                  /\ connection_metadata[task[t].snapshot[i].user].disconnected_at
            /\ \A i \in BroadcastTargets(t) \ BroadcastFailing(t) :
                  /\ Has(connections, task[t].snapshot[i].user)
                  /\ Get(connections, task[t].snapshot[i].user) = task[t].snapshot[i].ws

\* A broadcast to two live users, one of them unreachable, has returned 1.
C8_Witness ==
    \E t \in Tasks :
        /\ task[t].pc = "done"
        /\ task[t].op = "broadcast"
        /\ task[t].exclude = {}
        /\ Len(task[t].snapshot) = 2
        /\ Cardinality(BroadcastFailing(t)) = 1
        /\ task[t].sent_count = 1
        /\ Len(connections) = 1

\* C9: disconnect(u) leaves every queue as it was, leaves the handle and the
\* metadata of every other user as they were, and for u removes the handle
\* and keeps the metadata, marking the disconnect time.
C9_DisconnectFrame ==
    [][\A u \in Users :
          Disconnect("t1", u) =>
              /\ message_queues' = message_queues
              /\ ~Has(connections', u)
              /\ \A v \in Users \ {u} :
                    /\ Has(connections', v) <=> Has(connections, v)
                    /\ Has(connections, v) => Get(connections', v) = Get(connections, v)
                    /\ connection_metadata'[v] = connection_metadata[v]
              /\ connection_metadata'[u].present = connection_metadata[u].present
              /\ connection_metadata'[u].messages_sent = connection_metadata[u].messages_sent
              /\ connection_metadata'[u].disconnected_at =
                    (Has(connections, u) \/ connection_metadata[u].disconnected_at)
              /\ wire' = wire
              /\ attempts' = attempts]_vars

\* A live user with a queued envelope was disconnected while the other user
\* stays live.
C9_Witness ==
    /\ task["t1"].pc = "done"
    /\ task["t1"].op = "disconnect"
    /\ ~Has(connections, task["t1"].user)
    /\ connection_metadata[task["t1"].user].disconnected_at
    /\ message_queues[task["t1"].user] # <<>>
    /\ Len(connections) = 1

\* C10: no user has two live handles, and a connect that was accepted on a
\* reachable WebSocket has made it the user's registered handle.
C10_SingleLiveHandle ==
    /\ \A i, j \in 1..Len(connections) :
          connections[i].user = connections[j].user => i = j
    /\ \A t \in Tasks :
          (task[t].op = "connect" /\ task[t].pc # "connect_accept"
              /\ ws_state[task[t].ws] = "open") =>
              /\ Has(connections, task[t].user)
              /\ Get(connections, task[t].user) = task[t].ws

\* A second connect for a user replaced the first handle, which is still
\* open and was never disconnected.
C10_Witness ==
    \E t \in Tasks :
        /\ ConnectDone(t)
        /\ task[t].ws = 2
        /\ ws_state[1] = "open"
        /\ ws_state[2] = "open"
        /\ stats.active_connections = 2
        /\ connections = <<[user |-> task[t].user, ws |-> 2]>>

\* C11: connect initializes the metadata of a user only if it is absent: when
\* metadata of an earlier connection exists, the accepted reconnect keeps its
\* sent/received counters and its disconnect mark.
C11_ReconnectKeepsMetadata ==
    [][\A t \in Tasks :
          (ConnectAccept(t, TRUE) /\ connection_metadata[task[t].user].present) =>
              LET u == task[t].user
              IN  /\ connection_metadata'[u].messages_sent =
                         connection_metadata[u].messages_sent
                  /\ connection_metadata'[u].messages_received =
                         connection_metadata[u].messages_received
                  /\ connection_metadata'[u].disconnected_at =
                         connection_metadata[u].disconnected_at]_vars

\* C12: every Response stored in the session references a Message that was
\* appended to the session before it: an append of a Response whose message
\* id is not in the session fails and leaves the response list unchanged.
C12_ResponseReferencesMessage ==
    [][\A id \in MessageIds, a \in SessionAgents :
          (AddResponse(id, a)
              /\ \A i \in 1..Len(session.messages) : session.messages[i].id # id) =>
              session'.responses = session.responses]_vars

\* C13: every Message stored in the session carries the session's own
\* conversation id: a Message of another conversation is never stored.
C13_MessageBelongsToSession ==
    \A i \in 1..Len(session.messages) :
        session.messages[i].conversation_id = session.id

\* C14: the session without messages has no latest message and no message
\* of any agent; appending a message makes it the latest one and puts it at
\* the end of the messages of its agent type, leaving those of every other
\* agent type as they were.
C14_QueriesReflectAppends ==
    [][/\ session.messages = <<>> =>
             /\ get_latest_message(session) = None
             /\ \A b \in AgentType : get_messages_by_agent(session, b) = <<>>
       /\ \A id \in MessageIds, c \in ConversationIds, a \in SessionAgents :
             AddMessage(id, c, a) =>
                 /\ get_latest_message(session') = AgentMessage(id, c, a)
                 /\ \A b \in AgentType :
                       get_messages_by_agent(session', b) =
                           IF b = a
                           THEN Append(get_messages_by_agent(session, b),
                                       AgentMessage(id, c, a))
                           ELSE get_messages_by_agent(session, b)]_vars

\* Two messages of different agent types were appended: each query by agent
\* returns one of them and the latest message is the second.
C14_Witness ==
    /\ Len(session.messages) = 2
    /\ session.messages[1].agent_type # session.messages[2].agent_type
    /\ get_latest_message(session) = session.messages[2]
    /\ get_messages_by_agent(session, session.messages[1].agent_type)
           = <<session.messages[1]>>

\* An AgentResponse object among the values handed to ctx.send.
IsResponse(r) == "confidence_score" \in DOMAIN r

\* C16: every dispatch to a handler completes with a Response sent to the
\* requester; when the handler raised, conversational or not, the last
\* Response it sent is degraded: confidence 0, analysis {"error": ...} and a
\* retry action item.
C16_DispatchYieldsResponse ==
    agent.pc = "done" =>
        /\ \E i \in (agent.sent_before + 1)..Len(agent.sent) : IsResponse(agent.sent[i])
        /\ (agent.raised /\ Len(agent.sent) > agent.sent_before) =>
              LET r == agent.sent[Len(agent.sent)]
              IN  /\ IsResponse(r)
                  /\ r.confidence_score = 0
                  /\ r.analysis_results = "error"
                  /\ r.action_items = "Please try again"

\* C17: every Response a handler sends for a dispatched message carries the
\* id of that message as message_id (the dispatched message has an id and
\* the Response holds it) and the agent type the message was dispatched to,
\* on the success path and on the degraded path.
C17_ResponseCarriesIds ==
    \A i \in (agent.sent_before + 1)..Len(agent.sent) :
        IsResponse(agent.sent[i]) =>
            /\ "id" \in DOMAIN agent.msg
            /\ agent.sent[i].message_id = agent.msg.id
            /\ agent.sent[i].agent_type = HandlerAgent(agent.handler)

\* C15: a frame of the duplex surface whose agent type has no registered
\* handler is answered: the coordinator returns a Response with confidence
\* 0.0 for it instead of raising, and no raw fault ends the receive loop of
\* the connection.
C15_UnknownAgentDegraded ==
    \A h \in Handles : \A i \in 1..Len(received[h]) :
        LET data == received[h][i]
            agent_type == FrameAgent(data)
            r == route_message_to_agent(agent_type, AgentMessage(i, "c1", agent_type))
        IN  (data.json /\ agent_type \notin RegisteredAgents) =>
                /\ ~IsException(r)
                /\ r.confidence_score = 0
                /\ \A t \in Tasks :
                      (task[t].op = "endpoint" /\ task[t].ws = h
                          /\ task[t].ctx = "parse") => task[t].ret # "raised"

\* The agent_response frames the endpoint wrote to a WebSocket.
Replies(h) == SelectSeq(wire[h], LAMBDA f : "analysis" \in DOMAIN f)

\* C18: on every WebSocket the endpoint's agent_response frames answer the
\* inbound frames one for one and in the order received: never more replies
\* than frames, the i-th reply is for the i-th frame, and while the peer is
\* reachable and no reply is being written every frame has its reply.
C18_OneReplyPerFrame ==
    \A h \in Handles :
        /\ Len(Replies(h)) <= Len(received[h])
        /\ \A i \in 1..Len(Replies(h)) :
              Replies(h)[i].agent = FrameAgent(received[h][i])
        /\ (ws_state[h] = "open"
              /\ \A t \in Tasks : ~(task[t].pc = "reply_write" /\ task[t].websocket = h)) =>
              Len(Replies(h)) = Len(received[h])

\* Queue q holds a response message of agent type a under envelope id.
HoldsResponse(q, id, a) ==
    \E j \in 1..Len(q) :
        /\ "agent" \in DOMAIN q[j]
        /\ q[j].id = id
        /\ q[j].agent = a

\* C19: when the user's peer has gone away by the time the response to one
\* of the user's messages is to be delivered, over HTTP or over the duplex
\* stream, the response is not dropped: the step that finds the peer gone
\* leaves it in the user's outbound queue.
C19_InFlightResponseQueued ==
    [][\A t \in Tasks :
          /\ (ReplyWrite(t) /\ ws_state[task[t].websocket] # "open") =>
                HoldsResponse(message_queues'[task[t].user],
                              task[t].message.id, task[t].message.agent)
          /\ \A u \in Users, a \in AgentType :
                (StartChat(t, u, a) /\ http.agent_coordinator.started
                    /\ ~Has(connections, u)) =>
                    HoldsResponse(message_queues'[u], next_id, a)]_vars

\* C20: a broadcast attempts no write on the handle of a user who has been
\* disconnected: whenever it calls send_text for an entry of its snapshot,
\* that user is still registered with that handle.
C20_NoWriteAfterDisconnect ==
    [][\A t \in Tasks :
          (/\ task'[t].pc = "broadcast_write"
           /\ task[t].pc = "broadcast_write" => task'[t].pos # task[t].pos) =>
              LET e == task'[t].snapshot[task'[t].pos]
              IN  /\ Has(connections', e.user)
                  /\ Get(connections', e.user) = e.ws]_vars

\* A user the finished or running cleanup of task t counts as inactive: its
\* metadata shows more than max_idle_minutes since the last activity.
Inactive(tk, u) ==
    /\ connection_metadata[u].present
    /\ tk.current_time - connection_metadata[u].last_activity > tk.max_idle_minutes

\* C21: cleanup_inactive_connections leaves no live handle for a user whose
\* last activity is older than the threshold; each close it attempts, failed
\* or not, leaves the WebSocket not open and the user disconnected; and no
\* step of it touches the handle of a user within the threshold.
C21_CleanupIdle ==
    /\ [](\A t \in Tasks :
            (task[t].op = "cleanup" /\ task[t].pc = "done") =>
                \A u \in Users : Inactive(task[t], u) => ~Has(connections, u))
    /\ [][\A t \in Tasks :
            /\ CleanupClose(t) =>
                  /\ ws_state'[task[t].websocket] # "open"
                  /\ ~Has(connections', task[t].inactive_users[task[t].pos])
            /\ ((\E m \in IdleThresholds : StartCleanup(t, m)) \/ CleanupClose(t)) =>
                  \A u \in Users :
                      ~Inactive(task'[t], u) =>
                          /\ Has(connections', u) <=> Has(connections, u)
                          /\ Has(connections, u) =>
                                Get(connections', u) = Get(connections, u)]_vars

\* A cleanup has returned after a close that failed: the first user, idle
\* and registered with a WebSocket whose peer is gone, was disconnected and
\* the second user, connected within the threshold, kept its handle.
C21_Witness ==
    /\ task["t1"].op = "cleanup"
    /\ task["t1"].pc = "done"
    /\ task["t1"].inactive_users = <<"u1">>
    /\ ws_state[1] \in {"disconnected", "broken"}
    /\ stats.total_connections = 2
    /\ stats.active_connections = 1
    /\ connections = <<[user |-> "u2", ws |-> 2]>>
    /\ ~Inactive(task["t1"], "u2")

\* C22: every Response the handlers sent has a confidence score within
\* [0, 1] and a processing time that is not negative, whatever the analysis
\* returned.
C22_ResponseRanges ==
    \A i \in 1..Len(agent.sent) :
        IsResponse(agent.sent[i]) =>
            /\ agent.sent[i].confidence_score >= 0
            /\ agent.sent[i].confidence_score <= 100
            /\ agent.sent[i].processing_time >= 0

\* C23: once POST /profiles/ has created a profile for a wallet address, GET
\* /profiles/{wallet_address} for the same address succeeds (status below
\* 400) and returns that profile.
C23_CreatedProfileRetrievable ==
    \A i, j \in 1..Len(http.answers) :
        (/\ i < j
         /\ http.answers[i].endpoint = POST_profiles
         /\ http.answers[i].status_code < 400
         /\ http.answers[j].endpoint = GET_profiles
         /\ http.answers[j].wallet_address = http.answers[i].wallet_address) =>
            /\ http.answers[j].status_code < 400
            /\ http.answers[j].profile = http.answers[i].profile

\* C30: an HTTPException an endpoint raises itself reaches the client with
\* the status it was raised with: the 503 of POST /chat/w3rk and the 404 of
\* PUT /profiles/{wallet_address}, POST /chat/career-guidance and GET
\* /profiles/{wallet_address}; none is answered as 500.
C30_RaisedStatusPreserved ==
    \A i \in 1..Len(http.answers) :
        http.answers[i].raised # 0 =>
            http.answers[i].status_code = http.answers[i].raised

\* C27: in every reachable state the active_connections statistic is the
\* number of users that have a live handle, and it is never negative.
C27_ActiveConnectionsExact ==
    /\ stats.active_connections = Len(connections)
    /\ stats.active_connections >= 0

\* C29: when the receive loop of the duplex endpoint has ended, for whatever
\* reason, the WebSocket it served is no longer the registered handle of its
\* user.
C29_EndedLoopUnregistered ==
    \A t \in Tasks :
        (task[t].op = "endpoint" /\ task[t].pc = "done") =>
            ~(Has(connections, task[t].user)
                /\ Get(connections, task[t].user) = task[t].ws)

\* The frames on any WebSocket that carry envelope id.
Written(w, id) ==
    {<<h, j>> \in Handles \X (1..(MaxMsgs + max_queue_size + 2)) :
        j <= Len(w[h]) /\ w[h][j].type = "typing_indicator" /\ w[h][j].id = id}

\* C24: no step of any interleaving of sends, connects, disconnects and
\* flushes loses a queued envelope: an envelope that is in the user's queue
\* before the step is in the queue after it or has been written to a
\* WebSocket of the user (a queue that is full may evict its oldest entry).
C24_NoQueuedEnvelopeLost ==
    [][\A u \in Users :
          Len(message_queues[u]) < max_queue_size =>
              \A i \in 1..Len(message_queues[u]) :
                  \/ \E j \in 1..Len(message_queues'[u]) :
                        message_queues'[u][j].id = message_queues[u][i].id
                  \/ Written(wire', message_queues[u][i].id) # {}]_vars

\* C25: every queued envelope is written to the user's WebSocket at most
\* once, also when a second connect for the user starts while the flush of
\* an earlier connect is suspended.
C25_DeliveredAtMostOnce ==
    \A id \in 1..MaxMsgs :
        Cardinality({p \in Written(wire, id) : wire[p[1]][p[2]].delivered_from_queue}) <= 1

\* C26: when the receive loop of a WebSocket that a later connect of the
\* same user has replaced sees its peer close, the user keeps the newer
\* WebSocket as its live handle.
C26_SupersededDisconnectKeepsNewer ==
    [][\A t \in Tasks :
          (/\ EndpointDisconnect(t)
           /\ Has(connections, task[t].user)
           /\ Get(connections, task[t].user) # task[t].ws) =>
              /\ Has(connections', task[t].user)
              /\ Get(connections', task[t].user) = Get(connections, task[t].user)]_vars

\* The number of suspension points a connect has left behind: accept, the
\* welcome write, the notification write, then a write and a sleep for each
\* entry of the list it iterates.
ConnectProgress(t) ==
    CASE task[t].pc = "connect_accept" -> 0
      [] task[t].pc = "connect_welcome" -> 1
      [] task[t].pc = "send_write" /\ task[t].ctx = "notify" -> 2
      [] task[t].pc = "send_write" -> 1 + 2 * task[t].pos
      [] task[t].pc = "flush_sleep" -> 2 + 2 * task[t].pos
      [] OTHER -> 5 + 2 * (max_queue_size + 1)

\* The awaits of connect: each is a call that completes by returning or
\* raising, upon which the event loop resumes the coroutine.
Suspended(t) ==
    task[t].pc \in {"connect_accept", "connect_welcome", "send_write", "flush_sleep"}

\* C28: the reconnect flush terminates, also when the peer goes away during
\* it and the failed envelopes are appended to the list being iterated: a
\* connect that has not returned is suspended in one of its awaits, is never
\* beyond entry 101 of a list of at most 101 entries, and every resumption
\* takes it to a later suspension point or makes it return.
C28_FlushTerminates ==
    [][\A t \in Tasks :
          /\ (task[t].op = "connect" /\ task[t].pc # "done" /\ Resume(t)) =>
                /\ task'[t].op = "connect"
                /\ ConnectProgress(t)' > ConnectProgress(t)
          /\ (task[t].op = "connect" /\ task[t].pc # "done")' =>
                /\ Suspended(t)'
                /\ task'[t].pos <= max_queue_size + 1
                /\ Len(task'[t].queued_messages) <= max_queue_size + 1
                /\ ConnectProgress(t)' <= 4 + 2 * (max_queue_size + 1)]_vars

\* A connect with a full queue has returned although the peer went away
\* after the first envelopes were delivered: the flush went through the
\* requeued entries and ended.
C28_Witness ==
    /\ ConnectDone("t1")
    /\ Len(task["t1"].queue_before) = 100
    /\ ws_state[task["t1"].ws] = "disconnected"
    /\ Len(wire[task["t1"].ws]) >= 3
    /\ attempts[task["t1"].ws] > Len(wire[task["t1"].ws])
    /\ message_queues["u1"] = <<>>


====
